---------------------------- MODULE Spec2Model ----------------------------
(***************************************************************************)
(* A model of appengine/upload.py: one run of main(), from option parsing  *)
(* through the git queries of calculate_version() to the two appcfg.py     *)
(* calls, together with the checkout the git queries read.                 *)
(*                                                                         *)
(* Text is a sequence of one-character strings, so that slicing            *)
(* (mergebase[:7]), rstrip() and splitlines() are computed as Python       *)
(* computes them.  A local that is not assigned yet is the empty sequence; *)
(* a boolean or integer local that is assigned is a one-element sequence.  *)
(***************************************************************************)
EXTENDS Integers, Sequences, FiniteSets

(* ------------------------------ bounds -------------------------------- *)

\* Number of commits of the history graph.
NCommits == 3

\* Largest number of positional command-line arguments tried.
MaxArgs == 1

\* appcfg.py exit statuses tried are 0..MaxStatus and 255.
MaxStatus == 1

\* Largest ordinal handed to the formatter in FormatSpec.
MaxOrdinal == 12

(* ------------------------------- text --------------------------------- *)

Whitespace == {" ", "\t", "\n", "\r"}

Digits == <<"0", "1", "2", "3", "4", "5", "6", "7", "8", "9">>

HexDigits == <<"0", "1", "2", "3", "4", "5", "6", "7",
               "8", "9", "a", "b", "c", "d", "e", "f">>

\* str.rstrip(): the text without its trailing whitespace.
RECURSIVE RStrip(_)
RStrip(s) ==
  IF s # <<>> /\ s[Len(s)] \in Whitespace
  THEN RStrip(SubSeq(s, 1, Len(s) - 1))
  ELSE s

\* str.splitlines(): the lines of the text, without their line ends; a
\* trailing line end opens no further line.
RECURSIVE SplitLinesFrom(_, _, _)
SplitLinesFrom(s, line, lines) ==
  IF s = <<>>
  THEN IF line = <<>> THEN lines ELSE Append(lines, line)
  ELSE IF Head(s) = "\n"
       THEN SplitLinesFrom(Tail(s), <<>>, Append(lines, line))
       ELSE SplitLinesFrom(Tail(s), Append(line, Head(s)), lines)

SplitLines(s) == SplitLinesFrom(s, <<>>, <<>>)

\* '%s' % n for an integer n >= 0: its decimal digits.
RECURSIVE IntToStr(_)
IntToStr(n) ==
  IF n < 10
  THEN <<Digits[n + 1]>>
  ELSE IntToStr(n \div 10) \o <<Digits[(n % 10) + 1]>>

\* The length of the slice mergebase[:7].
ShortLen == 7

\* s[:7]: the first seven characters, the whole text when it is shorter.
Short(s) == SubSeq(s, 1, IF Len(s) < ShortLen THEN Len(s) ELSE ShortLen)

(* ---------------------------- the checkout ---------------------------- *)

Commits == 1..NCommits

\* The identifier git prints for commit c.  Identifiers of different commits
\* differ; their lengths differ too (4, 7, 10, ...), so that the ones the
\* program slices are shorter than, as long as, and longer than the slice.
IdOf(c) == [i \in 1..(3 * c + 1) |-> HexDigits[((5 * c + 3 * i) % 16) + 1]]

\* Every history graph over Commits: a commit's parents are older commits.
Histories == {h \in [Commits -> SUBSET Commits] :
                \A c \in Commits : \A p \in h[c] : p < c}

Users == {<<"a", "l">>, <<"b", "o", "b">>}

Tags == {<<>>, <<"r", "c", "1">>}

\* What git rev-parse --show-toplevel prints, less the line end.
TopLevel == <<"/", "w">>

\* SEE_ALL_DIR and the path of appcfg.py.
SEE_ALL_DIR == "seeall"

APPCFG == "~/src/go_appengine/appcfg.py"

Statuses == (0..MaxStatus) \cup {255}

VARIABLES
  parents,       \* the history graph: commit -> its parent commits
  HEAD,          \* the commit checked out
  origin_master, \* the commit origin/master names
  dirty,         \* which uncommitted differences to HEAD the checkout holds
  user,          \* calculate_version: what getpass.getuser() returned
  args,          \* positional arguments, as parse_args() returns them
  options,       \* options.verbose and options.tag
  pc,            \* the statement main() executes next
  root,          \* main: root
  mergebase,     \* get_pseudo_revision / calculate_version: mergebase
  pseudo_rev,    \* get_pseudo_revision: pseudo_rev
  head,          \* is_pristine: head
  pristine,      \* calculate_version: pristine
  version,       \* calculate_version / main: version
  exit_status,   \* the exit status of the process, once it has exited
  stderr,        \* what the run wrote to standard error
  events         \* the processes run and the lines printed, in order

env == <<parents, HEAD, origin_master, dirty>>
locals == <<root, mergebase, pseudo_rev, head, pristine, user, version>>
vars == <<parents, HEAD, origin_master, dirty, args, options, pc, root,
          mergebase, pseudo_rev, head, pristine, user, version, exit_status,
          stderr, events>>

\* The commits reachable from c along parents, c included.
RECURSIVE Reachable(_)
Reachable(c) == {c} \cup UNION {Reachable(p) : p \in parents[c]}

\* git merge-base a b: the common ancestors that no other common ancestor
\* descends from.
MergeBases(a, b) ==
  LET common == Reachable(a) \cap Reachable(b)
  IN  {c \in common : \A d \in common \ {c} : c \notin Reachable(d)}

\* The commit a revision argument names.
CommitOf(rev) == CHOOSE c \in Commits : IdOf(c) = rev

\* Output of git log <rev> --format="%h": one line per commit reachable from
\* rev, newest first, each the commit's identifier between the quotes of the
\* format (git abbreviates it; the number of lines is the same).
RECURSIVE LogLines(_)
LogLines(S) ==
  IF S = {} THEN <<>>
  ELSE LET c == CHOOSE x \in S : \A y \in S : y <= x
       IN  <<"\"">> \o IdOf(c) \o <<"\"", "\n">> \o LogLines(S \ {c})

GitLogOutput(rev) == LogLines(Reachable(CommitOf(rev)))

\* Output of git diff <flags> <rev>: empty when nothing of what the flags
\* select differs from rev.  Without --cached the working tree is compared,
\* with it the index; --ignore-submodules=none counts a changed submodule,
\* --ignore-submodules (that is, =all) does not.
GitDiffOutput(cmd, rev) ==
  LET files      == IF cmd.cached THEN dirty.staged_files
                                  ELSE dirty.files
      submodules == IF cmd.cached THEN dirty.staged_submodules
                                  ELSE dirty.submodules
      differs    == \/ rev # IdOf(HEAD)
                    \/ files
                    \/ cmd.ignore_submodules = "none" /\ submodules
  IN  IF differs THEN <<"d", "i", "f", "f", "\n">> ELSE <<>>

(* ------------------------- the run of main() -------------------------- *)

\* The directory main() is started in, inside the checkout.
Cwd == <<"/", "w", "/", "a">>

\* One process run, or one line printed, with what it returned.
Event(prog, argv, arg, cwd, returned) ==
  [prog |-> prog, argv |-> argv, arg |-> arg, cwd |-> cwd,
   returned |-> returned]

Git(argv, arg, cwd, returned) == Event("git", argv, arg, cwd, returned)

Appcfg(op, v, returned) ==
  Event(APPCFG, <<op, SEE_ALL_DIR, "-V">>, v, <<>>, returned)

\* The status the parent of the process sees after sys.exit(r).
ExitStatus(r) == r % 256

Init ==
  /\ parents \in Histories
  /\ HEAD \in Commits
  /\ origin_master \in Commits
  /\ dirty \in [files : BOOLEAN, submodules : BOOLEAN,
                staged_files : BOOLEAN, staged_submodules : BOOLEAN]
  /\ user = <<>>
  /\ args = <<>>
  /\ options = [verbose |-> FALSE, tag |-> <<>>]
  /\ pc = "parse_args"
  /\ root = <<>>
  /\ mergebase = <<>>
  /\ pseudo_rev = <<>>
  /\ head = <<>>
  /\ pristine = <<>>
  /\ version = <<>>
  /\ exit_status = <<>>
  /\ stderr = <<>>
  /\ events = <<>>

\* subprocess.check_output() raises CalledProcessError on a non-zero status;
\* nothing catches it, so the interpreter prints the traceback and exits 1.
Raise(call) ==
  /\ events' = Append(events, call)
  /\ stderr' = Append(stderr, "Traceback")
  /\ exit_status' = <<1>>
  /\ pc' = "exit"
  /\ UNCHANGED <<env, args, options, locals>>

\* Mutant of ParseArgs: the positional arguments are not looked at.
ParseArgs_NoCheck ==
  /\ pc = "parse_args"
  /\ \E n \in 0..MaxArgs, verbose \in BOOLEAN, tag \in Tags :
       /\ args' = [i \in 1..n |-> "x"]
       /\ options' = [verbose |-> verbose, tag |-> tag]
  /\ pc' = "checkout_root"
  /\ UNCHANGED <<env, locals, events, stderr, exit_status>>

\* main(), to the check of the positional arguments.
ParseArgs ==
  /\ pc = "parse_args"
  /\ \E n \in 0..MaxArgs, verbose \in BOOLEAN, tag \in Tags :
       /\ args' = [i \in 1..n |-> "x"]
       /\ options' = [verbose |-> verbose, tag |-> tag]
       /\ IF n > 0
          THEN /\ stderr' = Append(stderr, "error: Unknown arguments")
               /\ exit_status' = <<2>>
               /\ pc' = "exit"
          ELSE /\ pc' = "checkout_root"
               /\ UNCHANGED <<stderr, exit_status>>
  /\ UNCHANGED <<env, locals, events>>

\* root = checkout_root(os.getcwd()); logging.info(...)
CheckoutRoot ==
  /\ pc = "checkout_root"
  /\ \/ /\ root' = RStrip(TopLevel \o <<"\n">>)
        /\ events' = Append(events,
             Git(<<"rev-parse", "--show-toplevel">>, <<>>, Cwd, 0))
        /\ stderr' = IF options.verbose
                      THEN Append(stderr, "INFO Checkout root is")
                      ELSE stderr
        /\ pc' = "merge_base"
        /\ UNCHANGED <<env, args, options, mergebase, pseudo_rev, head,
                       pristine, user, version, exit_status>>
     \/ Raise(Git(<<"rev-parse", "--show-toplevel">>, <<>>, Cwd, 128))

\* get_pseudo_revision: mergebase = git(['merge-base', 'HEAD', remote])
MergeBase ==
  /\ pc = "merge_base"
  /\ \/ \E mb \in MergeBases(HEAD, origin_master) :
          /\ mergebase' = RStrip(IdOf(mb) \o <<"\n">>)
          /\ events' = Append(events,
               Git(<<"merge-base", "HEAD", "origin/master">>, <<>>, root, 0))
          /\ pc' = "log"
          /\ UNCHANGED <<env, args, options, root, pseudo_rev, head,
                         pristine, user, version, exit_status, stderr>>
     \/ Raise(Git(<<"merge-base", "HEAD", "origin/master">>, <<>>, root,
                  IF MergeBases(HEAD, origin_master) = {} THEN 1 ELSE 128))

\* Mutant of PseudoRevision: split('\n') in place of splitlines(), which
\* counts the empty text after the last line end.
PseudoRevision_Split(rev) ==
  Cardinality({i \in DOMAIN GitLogOutput(rev) : GitLogOutput(rev)[i] = "\n"}) + 1

\* len(git(['log', rev, '--format="%h"']).splitlines())
PseudoRevision(rev) == Len(SplitLines(GitLogOutput(rev)))

\* get_pseudo_revision: pseudo_rev = len(git(['log', ...]).splitlines())
Log ==
  /\ pc = "log"
  /\ \/ /\ pseudo_rev' = <<PseudoRevision(mergebase)>>
        /\ events' = Append(events,
             Git(<<"log", "--format=\"%h\"">>, mergebase, root, 0))
        /\ pc' = "rev_parse_head"
        /\ UNCHANGED <<env, args, options, root, mergebase, head, pristine,
                       user, version, exit_status, stderr>>
     \/ Raise(Git(<<"log", "--format=\"%h\"">>, mergebase, root, 128))

\* Mutant of CachedDiffCmd: the flag of the unstaged query on the staged one.
CachedDiffCmd_SubmodulesNone ==
  [flags |-> <<"diff", "--ignore-submodules=none", "--cached">>,
   ignore_submodules |-> "none", cached |-> TRUE]

\* The two diff commands of is_pristine.
UnstagedDiffCmd == [flags |-> <<"diff", "--ignore-submodules=none">>,
                    ignore_submodules |-> "none", cached |-> FALSE]

CachedDiffCmd == [flags |-> <<"diff", "--ignore-submodules", "--cached">>,
                  ignore_submodules |-> "all", cached |-> TRUE]

\* Mutant of RevParseHead: no early return, the diffs are always queried.
RevParseHead_NoShortCircuit ==
  /\ pc = "rev_parse_head"
  /\ head' = RStrip(IdOf(HEAD) \o <<"\n">>)
  /\ events' = Append(events, Git(<<"rev-parse", "HEAD">>, <<>>, root, 0))
  /\ pc' = "diff"
  /\ UNCHANGED <<env, args, options, root, mergebase, pseudo_rev, pristine,
                 user, version, exit_status, stderr>>

\* is_pristine: head = git(['rev-parse', 'HEAD']); if head != mergebase:
\* return False
RevParseHead ==
  /\ pc = "rev_parse_head"
  /\ \/ /\ head' = RStrip(IdOf(HEAD) \o <<"\n">>)
        /\ events' = Append(events, Git(<<"rev-parse", "HEAD">>, <<>>, root, 0))
        /\ IF head' # mergebase
           THEN pristine' = <<FALSE>> /\ pc' = "format"
           ELSE pristine' = pristine /\ pc' = "diff"
        /\ UNCHANGED <<env, args, options, root, mergebase, pseudo_rev,
                       user, version, exit_status, stderr>>
     \/ Raise(Git(<<"rev-parse", "HEAD">>, <<>>, root, 128))

\* Mutant of Diff: the unstaged diff is queried and its output dropped.
Diff_IgnoresOutput ==
  /\ pc = "diff"
  /\ events' = Append(events, Git(<<"diff", "--ignore-submodules=none">>,
                                  mergebase, root, 0))
  /\ pc' = "diff_cached"
  /\ UNCHANGED <<env, args, options, locals, exit_status, stderr>>

\* is_pristine: the left operand of the or, which decides when it is not
\* empty.
Diff ==
  /\ pc = "diff"
  /\ \/ /\ events' = Append(events, Git(UnstagedDiffCmd.flags, mergebase, root, 0))
        /\ IF GitDiffOutput(UnstagedDiffCmd, mergebase) # <<>>
           THEN pristine' = <<FALSE>> /\ pc' = "format"
           ELSE pristine' = pristine /\ pc' = "diff_cached"
        /\ UNCHANGED <<env, args, options, root, mergebase, pseudo_rev, head,
                       user, version, exit_status, stderr>>
     \/ Raise(Git(UnstagedDiffCmd.flags, mergebase, root, 128))

\* Mutant of DiffCached: a failing query is caught and taken as "no diff".
DiffCached_FailureIsEmpty ==
  /\ pc = "diff_cached"
  /\ \E returned \in {0, 128} :
       /\ events' = Append(events,
            Git(<<"diff", "--ignore-submodules", "--cached">>, mergebase,
                root, returned))
       /\ pristine' = <<TRUE>>
  /\ pc' = "format"
  /\ UNCHANGED <<env, args, options, root, mergebase, pseudo_rev, head,
                 user, version, exit_status, stderr>>

\* is_pristine: the right operand of the or, and the not.
DiffCached ==
  /\ pc = "diff_cached"
  /\ \/ /\ events' = Append(events, Git(CachedDiffCmd.flags, mergebase, root, 0))
        /\ pristine' = <<GitDiffOutput(CachedDiffCmd, mergebase) = <<>> >>
        /\ pc' = "format"
        /\ UNCHANGED <<env, args, options, root, mergebase, pseudo_rev, head,
                       user, version, exit_status, stderr>>
     \/ Raise(Git(CachedDiffCmd.flags, mergebase, root, 128))

\* Mutant of FormatVersion: the tag is attached to a tainted version only.
FormatVersion_TagOnlyWhenTainted(pseudo_revision, mb, is_pristine, username, tag) ==
  LET base == IntToStr(pseudo_revision) \o <<"-">> \o Short(mb)
  IN  IF is_pristine THEN base
      ELSE base \o <<"-", "t", "a", "i", "n", "t", "e", "d", "-">> \o username
                \o (IF tag # <<>> THEN <<"-">> \o tag ELSE <<>>)

\* calculate_version, from the assignment of version on.
FormatVersion(pseudo_revision, mb, is_pristine, username, tag) ==
  LET base    == IntToStr(pseudo_revision) \o <<"-">> \o Short(mb)
      tainted == IF ~is_pristine
                 THEN base \o <<"-", "t", "a", "i", "n", "t", "e", "d", "-">>
                           \o username
                 ELSE base
  IN  IF tag # <<>> THEN tainted \o <<"-">> \o tag ELSE tainted

\* getpass.getuser() is called for a tainted version only.
Format ==
  /\ pc = "format"
  /\ \E username \in Users :
       /\ user' = IF pristine[1] THEN user ELSE username
       /\ version' = FormatVersion(pseudo_rev[1], mergebase, pristine[1],
                                   username, options.tag)
  /\ pc' = "print"
  /\ UNCHANGED <<env, args, options, root, mergebase, pseudo_rev, head,
                 pristine, exit_status, stderr, events>>

\* Mutant of PrintVersion: the version goes to the deploy calls unprinted.
PrintVersion_Skipped ==
  /\ pc = "print"
  /\ pc' = "update"
  /\ UNCHANGED <<env, args, options, locals, exit_status, stderr, events>>

\* print version
PrintVersion ==
  /\ pc = "print"
  /\ events' = Append(events, Event("print", <<>>, version, <<>>, 0))
  /\ pc' = "update"
  /\ UNCHANGED <<env, args, options, locals, exit_status, stderr>>

\* Mutant of Update: the status of update is not tested.
Update_IgnoresStatus ==
  /\ pc = "update"
  /\ \E ret \in Statuses :
       events' = Append(events, Appcfg("update", version, ret))
  /\ pc' = "set_default_version"
  /\ UNCHANGED <<env, args, options, locals, stderr, exit_status>>

\* ret = subprocess.call(appcfg.py update ...); if ret: return ret
Update ==
  /\ pc = "update"
  /\ \E ret \in Statuses :
       /\ events' = Append(events, Appcfg("update", version, ret))
       /\ IF ret # 0
          THEN exit_status' = <<ExitStatus(ret)>> /\ pc' = "exit"
          ELSE exit_status' = exit_status /\ pc' = "set_default_version"
  /\ UNCHANGED <<env, args, options, locals, stderr>>

\* Mutant of SetDefaultVersion: main returns ret, the status of update.
SetDefaultVersion_ReturnsUpdateStatus ==
  /\ pc = "set_default_version"
  /\ \E ret \in Statuses :
       events' = Append(events, Appcfg("set_default_version", version, ret))
  /\ exit_status' = <<ExitStatus(events[Len(events)].returned)>>
  /\ pc' = "exit"
  /\ UNCHANGED <<env, args, options, locals, stderr>>

\* return subprocess.call(appcfg.py set_default_version ...)
SetDefaultVersion ==
  /\ pc = "set_default_version"
  /\ \E ret \in Statuses :
       /\ events' = Append(events, Appcfg("set_default_version", version, ret))
       /\ exit_status' = <<ExitStatus(ret)>>
       /\ pc' = "exit"
  /\ UNCHANGED <<env, args, options, locals, stderr>>

Next ==
  \/ ParseArgs
  \/ CheckoutRoot
  \/ MergeBase
  \/ Log
  \/ RevParseHead
  \/ Diff
  \/ DiffCached
  \/ Format
  \/ PrintVersion
  \/ Update
  \/ SetDefaultVersion

Spec == Init /\ [][Next]_vars

(* ------------------- the formatter on its own ------------------------- *)

\* calculate_version at the assignment of version, for every ordinal,
\* identifier, pristine flag, user name and tag of the bounded sets.
InitFormat ==
  /\ parents = [c \in Commits |-> {}]
  /\ HEAD = 1
  /\ origin_master = 1
  /\ dirty = [files |-> FALSE, submodules |-> FALSE,
              staged_files |-> FALSE, staged_submodules |-> FALSE]
  /\ user = <<>>
  /\ args = <<>>
  /\ options \in [verbose : {FALSE}, tag : Tags]
  /\ pc = "format"
  /\ root = TopLevel
  /\ mergebase \in {IdOf(c) : c \in Commits}
  /\ pseudo_rev \in {<<n>> : n \in 0..MaxOrdinal}
  /\ head = IdOf(HEAD)
  /\ pristine \in {<<TRUE>>, <<FALSE>>}
  /\ version = <<>>
  /\ exit_status = <<>>
  /\ stderr = <<>>
  /\ events = <<>>

NextFormat == Format

FormatSpec == InitFormat /\ [][NextFormat]_vars

(* ------------------- the commit count on its own ---------------------- *)

\* get_pseudo_revision at the log query, for every history, every HEAD and
\* origin/master, and every merge-base git may have printed for them.
InitLog ==
  /\ parents \in Histories
  /\ HEAD \in Commits
  /\ origin_master \in Commits
  /\ dirty = [files |-> FALSE, submodules |-> FALSE,
              staged_files |-> FALSE, staged_submodules |-> FALSE]
  /\ user = <<>>
  /\ args = <<>>
  /\ options = [verbose |-> FALSE, tag |-> <<>>]
  /\ pc = "log"
  /\ root = TopLevel
  /\ mergebase \in {IdOf(c) : c \in MergeBases(HEAD, origin_master)}
  /\ pseudo_rev = <<>>
  /\ head = <<>>
  /\ pristine = <<>>
  /\ version = <<>>
  /\ exit_status = <<>>
  /\ stderr = <<>>
  /\ events = <<Git(<<"rev-parse", "--show-toplevel">>, <<>>, Cwd, 0),
                Git(<<"merge-base", "HEAD", "origin/master">>, <<>>, root, 0)>>

NextLog == Log

LogSpec == InitLog /\ [][NextLog]_vars

(* ------------------------------ claims -------------------------------- *)

GitCalls == {i \in DOMAIN events : events[i].prog = "git"}

DiffCalls == {i \in GitCalls : events[i].argv[1] = "diff"}

HeadCalls == {i \in GitCalls : events[i].argv = <<"rev-parse", "HEAD">>}

LogCalls == {i \in GitCalls : events[i].argv[1] = "log"}

MergeBaseCalls == {i \in GitCalls : events[i].argv[1] = "merge-base"}

Printed == {i \in DOMAIN events : events[i].prog = "print"}

DeployCalls(op) ==
  {i \in DOMAIN events : events[i].prog = APPCFG /\ events[i].argv[1] = op}

AllDeployCalls == DeployCalls("update") \cup DeployCalls("set_default_version")

C3_PristineIffNoDiffAtAll ==
  pristine # <<>> =>
    (pristine[1] <=> /\ IdOf(HEAD) = mergebase
                     /\ ~dirty.files
                     /\ ~dirty.submodules
                     /\ ~dirty.staged_files
                     /\ ~dirty.staged_submodules)

\* C3, amended: is_pristine returns true iff HEAD is the merge-base, the
\* unstaged diff (submodules counted) is empty and the staged diff with
\* submodules ignored is empty.
C3_PristineIffQueriedDiffsEmpty ==
  pristine # <<>> =>
    (pristine[1] <=> /\ IdOf(HEAD) = mergebase
                     /\ ~dirty.files
                     /\ ~dirty.submodules
                     /\ ~dirty.staged_files)

C3_Witness ==
  /\ pristine = <<TRUE>>
  /\ IdOf(HEAD) = mergebase
  /\ ~dirty.staged_submodules
  /\ Cardinality(DiffCalls) = 2

\* C4: when HEAD is not the merge-base, is_pristine returns false and issues
\* no diff query: resolving HEAD is the only query it makes.
C4_ShortCircuit ==
  mergebase # <<>> /\ IdOf(HEAD) # mergebase =>
    /\ DiffCalls = {}
    /\ Cardinality(HeadCalls) <= 1
    /\ head # <<>> => pristine = <<FALSE>>
    /\ pristine # <<>> => head # <<>>

C4_Witness ==
  /\ IdOf(HEAD) # mergebase
  /\ pristine = <<FALSE>>
  /\ pc = "exit"
  /\ exit_status = <<0>>

\* The value of a text of decimal digits.
RECURSIVE ParseInt(_)
ParseInt(s) ==
  IF s = <<>> THEN 0
  ELSE 10 * ParseInt(SubSeq(s, 1, Len(s) - 1))
       + (CHOOSE d \in 0..9 : Digits[d + 1] = s[Len(s)])

FirstDash(s) ==
  CHOOSE i \in 1..Len(s) : s[i] = "-" /\ \A j \in 1..(i - 1) : s[j] # "-"

C7_GitFailureAborts ==
  \A i \in GitCalls :
    events[i].returned # 0 =>
      /\ i = Len(events)
      /\ pc = "exit"
      /\ Printed = {}
      /\ AllDeployCalls = {}
      /\ \A j \in GitCalls : j < i => events[j].returned = 0

C7_Witness ==
  \E i \in DiffCalls : events[i].returned # 0 /\ i = 5

\* C8: when get_pseudo_revision returns, the ordinal is the number of commits
\* reachable from the merge-base, itself included, and in the same history
\* the ordinal of an ancestor is at most the ordinal of its descendant.
C8_OrdinalCountsReachable ==
  pc = "rev_parse_head" =>
    LET ordinal == [c \in Commits |-> PseudoRevision(IdOf(c))]
    IN  /\ pseudo_rev = <<ordinal[CommitOf(mergebase)]>>
        /\ pseudo_rev[1] = Cardinality(Reachable(CommitOf(mergebase)))
        /\ \A A, B \in Commits : A \in Reachable(B) => ordinal[A] <= ordinal[B]

C8_Witness ==
  /\ pc = "rev_parse_head"
  /\ pseudo_rev = <<3>>
  /\ Cardinality(parents[CommitOf(mergebase)]) = 2

\* C9: with HEAD at the merge-base, an unstaged difference in a submodule
\* alone makes is_pristine false, a staged difference in a submodule alone
\* leaves it true.
C9_SubmoduleAsymmetry ==
  pristine # <<>> /\ IdOf(HEAD) = mergebase =>
    /\ dirty.submodules => pristine = <<FALSE>>
    /\ (/\ dirty.staged_submodules
        /\ ~dirty.staged_files
        /\ ~dirty.files
        /\ ~dirty.submodules) => pristine = <<TRUE>>

C9_Witness ==
  /\ pristine = <<TRUE>>
  /\ dirty.staged_submodules
  /\ pc = "exit"

\* C10: the steps run in sequence: merge-base before the log and before the
\* queries of is_pristine, every git query before the version is formatted,
\* the print before update, update before set_default_version, and each
\* deploy call at most once.
C10_StateOrder ==
  /\ \A j \in LogCalls \cup HeadCalls \cup DiffCalls :
       \E i \in MergeBaseCalls : i < j /\ events[i].returned = 0
  /\ version # <<>> => \A i \in GitCalls : events[i].returned = 0
  /\ \A j \in AllDeployCalls :
       /\ \E i \in Printed : i < j /\ events[i].arg = version
       /\ \A i \in GitCalls : i < j
  /\ \A j \in DeployCalls("set_default_version") :
       \E i \in DeployCalls("update") : i < j
  /\ Cardinality(DeployCalls("update")) <= 1
  /\ Cardinality(DeployCalls("set_default_version")) <= 1
  /\ Cardinality(Printed) <= 1

C10_Sequence ==
  /\ []C10_StateOrder
  /\ [][version # <<>> => GitCalls' = GitCalls]_vars

C10_Witness ==
  /\ pc = "exit"
  /\ Cardinality(AllDeployCalls) = 2
  /\ Cardinality(DiffCalls) = 2

=============================================================================
